---------------------------- MODULE Spec2Model ----------------------------
(***************************************************************************)
(* Model of the hardhat-deploy plugin for the wagmi CLI (src/src/index.ts).*)
(*                                                                         *)
(* Strings are sequences of one-character strings, so that concatenation,  *)
(* path.basename, Number.parseInt, RegExp.prototype.test and the own-       *)
(* property order of JavaScript objects are computed, not assumed.         *)
(***************************************************************************)
EXTENDS Integers, Sequences, FiniteSets, TLC

VARIABLES
    config,      \* the HardhatDeployOptions object captured by plugin(config)
    lastIndex,   \* lastIndex of every RegExp object of config.excludes / config.includes
    directory,   \* the files of config.directory, in readdirSync order
    pc,          \* position of the current contracts() invocation
    files,       \* const files: the selected file names, in listing order
    idx,         \* number of files already folded by the reduce
    acc,         \* the accumulator of the reduce: entries in insertion order
    seen,        \* history: records that passed shouldInclude, in scanning order
    results,     \* one element per finished contracts() invocation
    call         \* the last direct evaluation of a selector predicate

vars == <<config, lastIndex, directory, pc, files, idx, acc, seen, results, call>>

(***************************************************************************)
(* Bounds                                                                  *)
(***************************************************************************)
MaxFiles == 2       \* files in the scanned directory
MaxRuns == 2        \* invocations of contracts() on one plugin object
MaxCalls == 3       \* direct evaluations of a selector predicate

(***************************************************************************)
(* String literals                                                         *)
(***************************************************************************)
Empty == << >>
DotJson == <<".", "j", "s", "o", "n">>
Foo == <<"F", "o", "o">>
Token == <<"T", "o", "k", "e", "n">>
My == <<"M", "y">>
N7 == <<"7">>
N10 == <<"1", "0">>
Net1 == <<"1">>
Net137 == <<"1", "3", "7">>
NetMainnet == <<"m", "a", "i", "n", "n", "e", "t">>
Hex89 == <<"0", "x", "8", "9">>
KConstructor == <<"c", "o", "n", "s", "t", "r", "u", "c", "t", "o", "r">>
KToString == <<"t", "o", "S", "t", "r", "i", "n", "g">>
KValueOf == <<"v", "a", "l", "u", "e", "O", "f">>
KProto == <<"_", "_", "p", "r", "o", "t", "o", "_", "_">>
KHasOwnProperty ==
    <<"h", "a", "s", "O", "w", "n", "P", "r", "o", "p", "e", "r", "t", "y">>
KIsPrototypeOf ==
    <<"i", "s", "P", "r", "o", "t", "o", "t", "y", "p", "e", "O", "f">>
KToLocaleString ==
    <<"t", "o", "L", "o", "c", "a", "l", "e", "S", "t", "r", "i", "n", "g">>
KPropertyIsEnumerable ==
    <<"p", "r", "o", "p", "e", "r", "t", "y", "I", "s",
      "E", "n", "u", "m", "e", "r", "a", "b", "l", "e">>

\* Properties every object literal {} inherits from Object.prototype: a read
\* acc[key] of one of them yields a function (or Object.prototype itself).
ObjectPrototypeKeys ==
    {KConstructor, KToString, KValueOf, KProto, KHasOwnProperty,
     KIsPrototypeOf, KToLocaleString, KPropertyIsEnumerable}

(***************************************************************************)
(* JavaScript primitives used by the plugin                                *)
(***************************************************************************)
Digits == {"0", "1", "2", "3", "4", "5", "6", "7", "8", "9"}
HexDigits == Digits \cup {"a", "b", "c", "d", "e", "f"}

DigitVal(c) ==
    CASE c = "0" -> 0 [] c = "1" -> 1 [] c = "2" -> 2 [] c = "3" -> 3
      [] c = "4" -> 4 [] c = "5" -> 5 [] c = "6" -> 6 [] c = "7" -> 7
      [] c = "8" -> 8 [] c = "9" -> 9 [] c = "a" -> 10 [] c = "b" -> 11
      [] c = "c" -> 12 [] c = "d" -> 13 [] c = "e" -> 14 [] c = "f" -> 15

RECURSIVE NumeralValue(_, _, _)
\* value of the digits s[1..n] in the given radix
NumeralValue(s, n, radix) ==
    IF n = 0 THEN 0
    ELSE NumeralValue(s, n - 1, radix) * radix + DigitVal(s[n])

RECURSIVE DigitPrefix(_, _, _)
\* length of the longest prefix of s[i..] made of digits of digitSet
DigitPrefix(s, i, digitSet) ==
    IF i > Len(s) \/ s[i] \notin digitSet THEN 0
    ELSE 1 + DigitPrefix(s, i + 1, digitSet)

Tail2(s, k) == SubSeq(s, k + 1, Len(s))

NaN == [nan |-> TRUE, n |-> 0]
Num(v) == [nan |-> FALSE, n |-> v]

\* Number.parseInt(string) without a radix argument: optional sign, optional
\* 0x prefix, then the longest prefix of digits; NaN when that prefix is empty.
parseInt(str) ==
    LET neg == Len(str) > 0 /\ str[1] = "-"
        s1 == IF Len(str) > 0 /\ str[1] \in {"-", "+"} THEN Tail2(str, 1) ELSE str
        hex == Len(s1) >= 2 /\ s1[1] = "0" /\ s1[2] \in {"x", "X"}
        s2 == IF hex THEN Tail2(s1, 2) ELSE s1
        ds == IF hex THEN HexDigits ELSE Digits
        k == DigitPrefix(s2, 1, ds)
        v == NumeralValue(s2, k, IF hex THEN 16 ELSE 10)
    IN  IF k = 0 THEN NaN ELSE Num(IF neg THEN 0 - v ELSE v)

\* A decimal numeral: one or more decimal digits and nothing else.
IsDecimalNumeral(str) ==
    Len(str) > 0 /\ \A i \in 1..Len(str) : str[i] \in Digits

\* A property key that is an array index ("0", "7", "10", not "07"): such keys
\* are enumerated first, in ascending numeric order, by Object.entries/values.
IsArrayIndex(key) ==
    /\ IsDecimalNumeral(key)
    /\ Len(key) = 1 \/ key[1] # "0"
    /\ \/ Len(key) <= 9
       \/ /\ Len(key) = 10
          /\ \/ NumeralValue(key, 9, 10) < 429496729
             \/ NumeralValue(key, 9, 10) = 429496729 /\ DigitVal(key[10]) <= 4

ArrayIndexValue(key) == NumeralValue(key, Len(key), 10)

\* [[OwnPropertyKeys]] order of an ordinary object whose string keys were
\* created in the order `keys`: array indices ascending, then the others in
\* creation order.
OwnPropertyKeys(keys) ==
    LET isIdx(k) == IsArrayIndex(k)
        notIdx(k) == ~IsArrayIndex(k)
        before(a, b) == ArrayIndexValue(a) < ArrayIndexValue(b)
    IN  SortSeq(SelectSeq(keys, isIdx), before) \o SelectSeq(keys, notIdx)

\* path.basename(path, suffix) for a directory entry name (no separators).
basename(path, suffix) ==
    LET n == Len(path)
        m == Len(suffix)
    IN  IF m > 0 /\ m <= n
        THEN IF suffix = path THEN Empty
             ELSE IF SubSeq(path, n - m + 1, n) = suffix
                  THEN SubSeq(path, 1, n - m)
                  ELSE path
        ELSE path

Min(S) == CHOOSE x \in S : \A y \in S : x <= y

\* RegExp.prototype.test for a pattern whose source is a literal and whose
\* only flag may be g.  re = [source, global]; li is the object's lastIndex.
\* A global pattern starts its search at lastIndex and stores the end of the
\* match there (0 on failure); a plain pattern ignores and keeps lastIndex.
RegExpTest(re, li, str) ==
    LET start == IF re.global THEN li ELSE 0
        n == Len(str)
        m == Len(re.source)
        hits == {i \in start..(n - m) : SubSeq(str, i + 1, i + m) = re.source}
    IN  IF start > n \/ hits = {}
        THEN [result |-> FALSE, lastIndex |-> IF re.global THEN 0 ELSE li]
        ELSE [result |-> TRUE,
              lastIndex |-> IF re.global THEN Min(hits) + m ELSE li]

\* The pattern, as a predicate over names: does it match anywhere in str.
Matches(re, str) ==
    \E i \in 0..(Len(str) - Len(re.source)) :
        SubSeq(str, i + 1, i + Len(re.source)) = re.source

(***************************************************************************)
(* Selector                                                                *)
(***************************************************************************)
RECURSIVE TestAny(_, _, _, _)
\* for (const re of list) if (re.test(name)) return ...;  from element i on
TestAny(list, lis, name, i) ==
    IF i > Len(list) THEN [result |-> FALSE, lastIndex |-> lis]
    ELSE LET t == RegExpTest(list[i], lis[i], name)
             lis2 == [lis EXCEPT ![i] = t.lastIndex]
         IN  IF t.result THEN [result |-> TRUE, lastIndex |-> lis2]
             ELSE TestAny(list, lis2, name, i + 1)

\* shouldInclude(name, config); li holds the lastIndex of the patterns.
shouldInclude(name, cfg, li) ==
    LET ex == IF cfg.excludes.present
              THEN TestAny(cfg.excludes.list, li.excludes, name, 1)
              ELSE [result |-> FALSE, lastIndex |-> li.excludes]
    IN  IF ex.result
        THEN [result |-> FALSE,
              lastIndex |-> [excludes |-> ex.lastIndex, includes |-> li.includes]]
        ELSE IF cfg.includes.present
             THEN LET inc == TestAny(cfg.includes.list, li.includes, name, 1)
                  IN  [result |-> inc.result,
                       lastIndex |-> [excludes |-> ex.lastIndex,
                                      includes |-> inc.lastIndex]]
             ELSE [result |-> TRUE,
                   lastIndex |-> [excludes |-> ex.lastIndex,
                                  includes |-> li.includes]]

Includes(list, x) == \E i \in 1..Len(list) : list[i] = x

shouldIncludeFile_NoLengthCheck(fileName, cfg) ==
    LET networkName == basename(fileName, DotJson)
    IN  IF cfg.includeNetworks.present
           /\ ~Includes(cfg.includeNetworks.list, networkName)
        THEN FALSE
        ELSE IF cfg.excludeNetworks.present
                /\ Includes(cfg.excludeNetworks.list, networkName)
             THEN FALSE
             ELSE TRUE

\* shouldIncludeFile(fileName, config)
shouldIncludeFile(fileName, cfg) ==
    LET networkName == basename(fileName, DotJson)
    IN  IF cfg.includeNetworks.present /\ Len(cfg.includeNetworks.list) > 0
           /\ ~Includes(cfg.includeNetworks.list, networkName)
        THEN FALSE
        ELSE IF cfg.excludeNetworks.present /\ Len(cfg.excludeNetworks.list) > 0
                /\ Includes(cfg.excludeNetworks.list, networkName)
             THEN FALSE
             ELSE TRUE


(***************************************************************************)
(* Inputs                                                                  *)
(***************************************************************************)
Absent == [present |-> FALSE, list |-> << >>]
List(l) == [present |-> TRUE, list |-> l]
NoString == [present |-> FALSE, value |-> Empty]
String(s) == [present |-> TRUE, value |-> s]
RegExp(source, global) == [source |-> source, global |-> global]

Names == {Foo, Token, N7, N10, KConstructor}
FileNames == {Net1 \o DotJson, Net137 \o DotJson, NetMainnet \o DotJson}
NetworkIds == {Net1, Net137, NetMainnet}
Abis == {"abi1", "abi2"}
Addresses == {"0xAA", "0xBB"}

Contract(name, abi, address) == [name |-> name, abi |-> abi, address |-> address]
Export(chainId, contracts) ==
    [malformed |-> FALSE, chainId |-> chainId, contracts |-> contracts]
Malformed == [malformed |-> TRUE, chainId |-> Empty, contracts |-> << >>]
File(name, text) == [name |-> name, text |-> text]

\* Export files a directory may hold; `contracts` is in the order of the text.
Files ==
    {File(Net1 \o DotJson,
          Export(Net1, <<Contract(Foo, "abi1", "0xAA"),
                         Contract(Token, "abi1", "0xBB")>>)),
     File(Net1 \o DotJson,
          Export(Net1, <<Contract(Token, "abi1", "0xBB"),
                         Contract(N10, "abi1", "0xAA"),
                         Contract(N7, "abi1", "0xAA")>>)),
     File(Net1 \o DotJson,
          Export(Net1, <<Contract(KConstructor, "abi1", "0xAA")>>)),
     File(Net137 \o DotJson,
          Export(Net137, <<Contract(Foo, "abi2", "0xAA")>>)),
     File(Net137 \o DotJson,
          Export(Net137, <<Contract(Foo, "abi2", "0xBB"),
                           Contract(N7, "abi2", "0xBB"),
                           Contract(Token, "abi1", "0xBB")>>)),
     File(Net137 \o DotJson, Malformed),
     File(NetMainnet \o DotJson,
          Export(Net1, <<Contract(Foo, "abi2", "0xBB")>>)),
     File(NetMainnet \o DotJson,
          Export(NetMainnet, <<Contract(Foo, "abi1", "0xBB")>>)),
     File(NetMainnet \o DotJson,
          Export(Hex89, <<Contract(Token, "abi2", "0xAA")>>))}

RECURSIVE SeqsUpTo(_, _)
SeqsUpTo(S, n) ==
    IF n = 0 THEN {<< >>}
    ELSE LET shorter == SeqsUpTo(S, n - 1)
         IN  shorter \cup {Append(s, x) : s \in shorter, x \in S}

\* A directory never holds two entries of the same name.
Directories ==
    {d \in SeqsUpTo(Files, MaxFiles) :
        \A i, j \in 1..Len(d) : i # j => d[i].name # d[j].name}

Options(includes, excludes, includeNetworks, excludeNetworks, prefix, suffix) ==
    [includes |-> includes, excludes |-> excludes,
     includeNetworks |-> includeNetworks, excludeNetworks |-> excludeNetworks,
     namePrefix |-> prefix, nameSuffix |-> suffix]

\* Configurations of the plugin for the runs of contracts().
Configs ==
    {Options(i, e, n, Absent, NoString, NoString) :
        i \in {Absent, List(<< >>), List(<<RegExp(Foo, TRUE)>>)},
        e \in {Absent, List(<<RegExp(Token, FALSE)>>), List(<<RegExp(Foo, TRUE)>>)},
        n \in {Absent, List(<<Net1, Net137>>)}}
    \cup
    {Options(Absent, e, Absent, x, p, s) :
        e \in {Absent, List(<<RegExp(Token, FALSE)>>)},
        x \in {Absent, List(<<NetMainnet>>)},
        p \in {NoString, String(My)},
        s \in {NoString, String(N7)}}

\* Configurations for the direct evaluations of the two predicates.
SelectorConfigs ==
    {Options(i, e, n, x, NoString, NoString) :
        i \in {Absent, List(<< >>), List(<<RegExp(Foo, FALSE)>>),
               List(<<RegExp(Token, FALSE), RegExp(<<"o">>, TRUE)>>)},
        e \in {Absent, List(<< >>), List(<<RegExp(Token, TRUE)>>),
               List(<<RegExp(N7, FALSE), RegExp(Foo, FALSE)>>)},
        n \in {Absent, List(<< >>), List(<<Net1>>), List(<<Net1, NetMainnet>>)},
        x \in {Absent, List(<< >>), List(<<Net1>>), List(<<Net137>>)}}

FreshLastIndex(cfg) ==
    [excludes |-> [i \in 1..Len(cfg.excludes.list) |-> 0],
     includes |-> [i \in 1..Len(cfg.includes.list) |-> 0]]

(***************************************************************************)
(* Merger                                                                  *)
(***************************************************************************)
namePrefix(cfg) == IF cfg.namePrefix.present THEN cfg.namePrefix.value ELSE Empty
nameSuffix(cfg) == IF cfg.nameSuffix.present THEN cfg.nameSuffix.value ELSE Empty

\* `${namePrefix}${name}${nameSuffix}`
contractName(cfg, name) == namePrefix(cfg) \o name \o nameSuffix(cfg)

\* acc is the sequence of its own entries, in the order they were created.
HasOwn(a, key) == \E i \in 1..Len(a) : a[i].name = key
IndexOf(a, key) == CHOOSE i \in 1..Len(a) : a[i].name = key
Own(a, key) == a[IndexOf(a, key)]

NameOf(e) == e.name
Map(f(_), s) == [i \in 1..Len(s) |-> f(s[i])]

\* Object.entries(deployment.contracts): the records in own-property order.
Entries(contracts) ==
    LET order == OwnPropertyKeys(Map(NameOf, contracts))
    IN  [i \in 1..Len(order) |-> Own(contracts, order[i])]

\* Object.values(contracts): the entries of acc in own-property order.
Values(a) ==
    LET order == OwnPropertyKeys(Map(NameOf, a))
    IN  [i \in 1..Len(order) |-> Own(a, order[i])]

contractFor_LastAbi(a, key, abi) ==
    [name |-> key, abi |-> abi,
     address |-> IF HasOwn(a, key) THEN Own(a, key).address ELSE << >>]

\* acc[contractName] || { name: contractName, abi, address: {} }, for a key
\* that acc owns or that nothing on its prototype chain defines.
contractFor(a, key, abi) ==
    IF HasOwn(a, key) THEN Own(a, key)
    ELSE [name |-> key, abi |-> abi, address |-> << >>]

recordAddress_KeepFirst(addresses, chainId, address) ==
    addresses @@ (chainId :> address)

\* addresses[chainId] = address
recordAddress(addresses, chainId, address) ==
    (chainId :> address) @@ addresses

\* acc[contractName] = contract
Store(a, contract) ==
    IF HasOwn(a, contract.name)
    THEN [a EXCEPT ![IndexOf(a, contract.name)] = contract]
    ELSE Append(a, contract)

RECURSIVE FoldContracts(_, _, _, _, _)
\* The for-of loop over the entries of one file, from entry i on.
\* st = [acc, lastIndex, passed, thrown]: passed is the set of raw names that
\* passed shouldInclude, thrown tells that the loop ended with a TypeError.
FoldContracts(cfg, chainId, entries, i, st) ==
    IF i > Len(entries) THEN st
    ELSE
      LET e == entries[i]
          inc == shouldInclude(e.name, cfg, st.lastIndex)
          key == contractName(cfg, e.name)
      IN  IF ~inc.result
          THEN FoldContracts(cfg, chainId, entries, i + 1,
                             [st EXCEPT !.lastIndex = inc.lastIndex])
          ELSE IF ~HasOwn(st.acc, key) /\ key \in ObjectPrototypeKeys
               \* contract is an inherited object, contract.address is
               \* undefined and the assignment addresses[chainId] throws
               THEN [st EXCEPT !.lastIndex = inc.lastIndex,
                               !.passed = @ \cup {e.name},
                               !.thrown = TRUE]
               ELSE
                 LET contract == contractFor(st.acc, key, e.abi)
                     addresses == recordAddress(contract.address, chainId, e.address)
                     stored == Store(st.acc, [contract EXCEPT !.address = addresses])
                 IN  FoldContracts(cfg, chainId, entries, i + 1,
                                   [acc |-> stored, lastIndex |-> inc.lastIndex,
                                    passed |-> st.passed \cup {e.name},
                                    thrown |-> FALSE])

NoAddress == ""

simplify_SingleChain(addresses) ==
    IF Cardinality(DOMAIN addresses) = 1
    THEN [kind |-> "scalar",
          value |-> addresses[CHOOSE c \in DOMAIN addresses : TRUE],
          map |-> << >>]
    ELSE [kind |-> "map", value |-> NoAddress, map |-> addresses]

\* unique.length === 1 ? unique[0] : contract.address
simplify(addresses) ==
    LET unique == {addresses[c] : c \in DOMAIN addresses}
    IN  IF Cardinality(unique) = 1
        THEN [kind |-> "scalar", value |-> CHOOSE a \in unique : TRUE,
              map |-> << >>]
        ELSE [kind |-> "map", value |-> NoAddress, map |-> addresses]

Simplified(e) == [name |-> e.name, abi |-> e.abi, address |-> simplify(e.address)]

TextOf(fileName) ==
    directory[CHOOSE i \in 1..Len(directory) : directory[i].name = fileName].text

Returned(value) == [status |-> "returned", value |-> value]
Thrown == [status |-> "thrown", value |-> << >>]
NoCall == [fn |-> "none", arg |-> Empty, result |-> FALSE, n |-> 0]

(***************************************************************************)
(* contracts()                                                             *)
(***************************************************************************)
\* readdirSync(config.directory).filter(shouldIncludeFile)
ReadDir ==
    /\ pc \in {"idle", "returned", "thrown"}
    /\ Len(results) < MaxRuns
    /\ LET keep(f) == shouldIncludeFile(f, config)
       IN  files' = SelectSeq(Map(NameOf, directory), keep)
    /\ idx' = 0
    /\ acc' = << >>
    /\ seen' = << >>
    /\ pc' = "fold"
    /\ UNCHANGED <<config, lastIndex, directory, results, call>>

\* One step of the reduce: read and parse the next file and merge its
\* contracts; a SyntaxError of JSON.parse or a TypeError ends the invocation.
FoldFile ==
    /\ pc = "fold"
    /\ idx < Len(files)
    /\ LET text == TextOf(files[idx + 1])
       IN  IF text.malformed
           THEN /\ pc' = "thrown"
                /\ results' = Append(results, Thrown)
                /\ UNCHANGED <<lastIndex, acc, seen, idx>>
           ELSE
             LET chainId == parseInt(text.chainId)
                 st == FoldContracts(config, chainId, Entries(text.contracts), 1,
                                     [acc |-> acc, lastIndex |-> lastIndex,
                                      passed |-> {}, thrown |-> FALSE])
                 passed(c) == c.name \in st.passed
                 note(c) == [file |-> files[idx + 1],
                             key |-> contractName(config, c.name),
                             chainId |-> chainId, abi |-> c.abi,
                             address |-> c.address]
             IN  /\ acc' = st.acc
                 /\ lastIndex' = st.lastIndex
                 /\ seen' = seen \o Map(note, SelectSeq(text.contracts, passed))
                 /\ IF st.thrown
                    THEN /\ pc' = "thrown"
                         /\ results' = Append(results, Thrown)
                         /\ UNCHANGED idx
                    ELSE /\ idx' = idx + 1
                         /\ UNCHANGED <<pc, results>>
    /\ UNCHANGED <<config, directory, files, call>>

\* The simplify loop and the return statement.
Return ==
    /\ pc = "fold"
    /\ idx = Len(files)
    /\ results' = Append(results, Returned(Map(Simplified, Values(acc))))
    /\ pc' = "returned"
    /\ UNCHANGED <<config, lastIndex, directory, files, idx, acc, seen, call>>

Init ==
    /\ config \in Configs
    /\ lastIndex = FreshLastIndex(config)
    /\ directory \in Directories
    /\ pc = "idle"
    /\ files = << >>
    /\ idx = 0
    /\ acc = << >>
    /\ seen = << >>
    /\ results = << >>
    /\ call = NoCall

Next == ReadDir \/ FoldFile \/ Return

Spec == Init /\ [][Next]_vars

(***************************************************************************)
(* Direct evaluations of the selector predicates                           *)
(***************************************************************************)
EvalShouldInclude ==
    /\ call.n < MaxCalls
    /\ \E name \in Names :
         LET r == shouldInclude(name, config, lastIndex)
         IN  /\ lastIndex' = r.lastIndex
             /\ call' = [fn |-> "shouldInclude", arg |-> name,
                         result |-> r.result, n |-> call.n + 1]
    /\ UNCHANGED <<config, directory, pc, files, idx, acc, seen, results>>

EvalShouldIncludeFile ==
    /\ call.n < MaxCalls
    /\ \E f \in FileNames :
         call' = [fn |-> "shouldIncludeFile", arg |-> f,
                  result |-> shouldIncludeFile(f, config), n |-> call.n + 1]
    /\ UNCHANGED <<config, lastIndex, directory, pc, files, idx, acc, seen, results>>

InitSelector ==
    /\ config \in SelectorConfigs
    /\ lastIndex = FreshLastIndex(config)
    /\ directory = << >>
    /\ pc = "idle"
    /\ files = << >>
    /\ idx = 0
    /\ acc = << >>
    /\ seen = << >>
    /\ results = << >>
    /\ call = NoCall

NextSelector == EvalShouldInclude \/ EvalShouldIncludeFile

SpecSelector == InitSelector /\ [][NextSelector]_vars

(***************************************************************************)
(* Properties                                                              *)
(***************************************************************************)
\* some pattern of an optional list matches the name
AnyMatches(opt, name) ==
    opt.present /\ \E i \in 1..Len(opt.list) : Matches(opt.list[i], name)

IsEmptyOrAbsent(opt) == ~opt.present \/ Len(opt.list) = 0

\* C1: shouldInclude with a non-empty includes list returns false whenever
\* some excludes pattern matches the name, and otherwise returns true exactly
\* when some includes pattern matches it.
C1_ExcludesThenIncludes ==
    (call.fn = "shouldInclude" /\ config.includes.present
        /\ Len(config.includes.list) > 0)
    => (call.result <=> (~AnyMatches(config.excludes, call.arg)
                          /\ AnyMatches(config.includes, call.arg)))

\* C2: with includes absent or empty, shouldInclude returns true for every
\* name that no excludes pattern matches.
C2_EmptyIncludesMatchEverything ==
    (call.fn = "shouldInclude" /\ IsEmptyOrAbsent(config.includes)
        /\ ~AnyMatches(config.excludes, call.arg))
    => call.result

\* C3: for a file <id>.json, shouldIncludeFile returns true exactly when
\* (includeNetworks is absent, empty or contains id) and (excludeNetworks is
\* absent, empty or does not contain id).
C3_FileSelection ==
    call.fn = "shouldIncludeFile" =>
        \A id \in NetworkIds :
            call.arg = id \o DotJson =>
                (call.result <=>
                    /\ IsEmptyOrAbsent(config.includeNetworks)
                       \/ Includes(config.includeNetworks.list, id)
                    /\ IsEmptyOrAbsent(config.excludeNetworks)
                       \/ ~Includes(config.excludeNetworks.list, id))

\* an id listed in both includeNetworks and excludeNetworks was rejected
C3_Witness ==
    /\ call.fn = "shouldIncludeFile"
    /\ \E id \in NetworkIds :
         /\ call.arg = id \o DotJson
         /\ config.includeNetworks.present
         /\ Includes(config.includeNetworks.list, id)
         /\ config.excludeNetworks.present
         /\ Includes(config.excludeNetworks.list, id)
    /\ ~call.result

\* the value the last finished invocation returned
Output == results[Len(results)].value

Max(S) == CHOOSE x \in S : \A y \in S : x >= y
Writes(key) == {i \in 1..Len(seen) : seen[i].key = key}
Chains(key) == {seen[i].chainId : i \in Writes(key)}
LastAddress(key, chainId) ==
    seen[Max({i \in Writes(key) : seen[i].chainId = chainId})].address
DistinctAddresses(key) == {LastAddress(key, c) : c \in Chains(key)}

\* C4: in the returned registry an entry's address is a scalar exactly when
\* one distinct address stands recorded over all the chains that contributed
\* to the entry, and is then that address; otherwise it is the mapping that
\* holds every contributing chain id with the address recorded for it.
C4_CollapseAfterFold ==
    pc = "returned" =>
        \A i \in 1..Len(Output) :
            LET e == Output[i]
                k == e.name
            IN  /\ e.address.kind = "scalar"
                     <=> Cardinality(DistinctAddresses(k)) = 1
                /\ e.address.kind = "scalar"
                     => DistinctAddresses(k) = {e.address.value}
                /\ e.address.kind = "map"
                     => /\ DOMAIN e.address.map = Chains(k)
                        /\ \A c \in Chains(k) :
                             e.address.map[c] = LastAddress(k, c)

\* one entry on two chains collapsed to a scalar, another on two chains kept
\* its mapping because the later file brought a different address
C4_Witness ==
    /\ pc = "returned"
    /\ \E i, j \in 1..Len(Output) :
         /\ Output[i].address.kind = "scalar"
         /\ Cardinality(Chains(Output[i].name)) = 2
         /\ Output[j].address.kind = "map"
         /\ Cardinality(DOMAIN Output[j].address.map) = 2

IsBadText(text) == text.malformed \/ ~IsDecimalNumeral(text.chainId)

\* C5: when a selected file is malformed JSON or has a chainId that is not a
\* decimal numeral, contracts() returns no registry and records no contract
\* of that file.
C5_BadFileIsFatal ==
    /\ pc = "returned" => \A j \in 1..Len(files) : ~IsBadText(TextOf(files[j]))
    /\ \A i \in 1..Len(seen) : ~IsBadText(TextOf(seen[i].file))

ToSet(s) == {s[i] : i \in 1..Len(s)}

\* the names the registry must hold: the transformed names of the contracts
\* of the selected files that shouldInclude accepts
ExpectedNames ==
    {contractName(config, c.name) :
        c \in {c \in UNION {ToSet(TextOf(files[j]).contracts) : j \in 1..Len(files)} :
                 shouldInclude(c.name, config, FreshLastIndex(config)).result}}

\* C6: contracts() over readable files returns a registry whose names are
\* exactly the transformed names of the accepted contracts, one entry each.
C6_ExactlyTheAcceptedNames ==
    (pc \in {"returned", "thrown"}
        /\ \A j \in 1..Len(files) : ~TextOf(files[j]).malformed)
    => /\ pc = "returned"
       /\ ToSet(Map(NameOf, Output)) = ExpectedNames
       /\ Len(Output) = Cardinality(ExpectedNames)

RECURSIVE FirstOccurrences(_)
FirstOccurrences(s) ==
    IF s = << >> THEN << >>
    ELSE LET front == FirstOccurrences(SubSeq(s, 1, Len(s) - 1))
             last == s[Len(s)]
         IN  IF last \in ToSet(front) THEN front ELSE Append(front, last)

KeyOf(w) == w.key

\* C7: the registry lists the entries in the order in which their names were
\* first encountered, scanning the files in listing order and the contracts
\* of a file in their listed order.
C7_FirstEncounterOrder ==
    pc = "returned" => Map(NameOf, Output) = FirstOccurrences(Map(KeyOf, seen))

\* C8: every invocation of contracts() on the same plugin object over the
\* same directory contents ends the same way with the same registry.
C8_RerunIsIdentical ==
    \A i, j \in 1..Len(results) : results[i] = results[j]

\* C9: a fold step leaves in the entry, for every (key, chain id) the file
\* records, the address of that file, keeps every other recorded address and
\* adds no other one; and a file that only rewrites recorded pairs raises no
\* error.
C9_LastWriteWins ==
    [][LET new == SubSeq(seen', Len(seen) + 1, Len(seen'))
           rewritten(k, c) ==
               \E i \in 1..Len(new) : new[i].key = k /\ new[i].chainId = c
       IN  /\ (pc = "fold" /\ pc' = "fold" /\ idx' = idx + 1) =>
                 /\ \A i \in 1..Len(new) :
                      /\ HasOwn(acc', new[i].key)
                      /\ new[i].chainId \in DOMAIN Own(acc', new[i].key).address
                      /\ Own(acc', new[i].key).address[new[i].chainId]
                           = new[i].address
                 /\ \A i \in 1..Len(acc) :
                      /\ HasOwn(acc', acc[i].name)
                      /\ \A c \in DOMAIN acc[i].address :
                           /\ c \in DOMAIN Own(acc', acc[i].name).address
                           /\ ~rewritten(acc[i].name, c) =>
                                Own(acc', acc[i].name).address[c]
                                  = acc[i].address[c]
                 /\ \A i \in 1..Len(acc') :
                      \A c \in DOMAIN acc'[i].address :
                           \/ rewritten(acc'[i].name, c)
                           \/ /\ HasOwn(acc, acc'[i].name)
                              /\ c \in DOMAIN Own(acc, acc'[i].name).address
           /\ (pc = "fold" /\ pc' = "thrown"
                 /\ ~TextOf(files[idx + 1]).malformed) =>
                 \E i \in 1..Len(new) : ~HasOwn(acc, new[i].key)
      ]_vars

\* the same (key, chain id) was recorded twice with different addresses and
\* the registry holds the later one
C9_Witness ==
    /\ pc = "returned"
    /\ \E i, j \in 1..Len(seen) :
         /\ i < j
         /\ seen[i].key = seen[j].key
         /\ seen[i].chainId = seen[j].chainId
         /\ seen[i].address # seen[j].address
         /\ LastAddress(seen[j].key, seen[j].chainId) = seen[j].address
         /\ \E o \in 1..Len(Output) :
              /\ Output[o].name = seen[j].key
              /\ Output[o].address.kind = "scalar"
              /\ Output[o].address.value = seen[j].address

FirstWrite(key) == seen[Min(Writes(key))]

\* C10: every entry, while folding and in the returned registry, carries the
\* name it is keyed by and the ABI of the first record folded into it.
C10_FirstAbiWins ==
    /\ \A i \in 1..Len(acc) :
         /\ Writes(acc[i].name) # {}
         /\ acc[i].abi = FirstWrite(acc[i].name).abi
    /\ pc = "returned" =>
         \A i \in 1..Len(Output) :
           /\ Writes(Output[i].name) # {}
           /\ Output[i].abi = FirstWrite(Output[i].name).abi

\* a later file contributed to an entry with a different ABI
C10_Witness ==
    /\ pc = "returned"
    /\ \E i, j \in 1..Len(seen) :
         /\ i < j
         /\ seen[i].key = seen[j].key
         /\ seen[i].abi # seen[j].abi
         /\ \E o \in 1..Len(Output) :
              /\ Output[o].name = seen[i].key
              /\ Output[o].abi = FirstWrite(seen[i].key).abi

============================================================================
